---- MODULE Spec2Model ----
(***************************************************************************)
(* Model of rapids_pre_commit_hooks/alpha_spec.py: the check that makes    *)
(* RAPIDS packages in a dependencies.yaml carry (development) or not carry *)
(* (release) the alpha specifier >=0.0.0a0.                                *)
(*                                                                         *)
(* Text is modelled as a sequence of one-character strings, so that the    *)
(* scanner, the requirement parser, the specifier ordering and the         *)
(* replacement of a span are computed character by character.              *)
(*                                                                         *)
(* A value that is used more than once is passed as the argument of a      *)
(* local operator rather than named by a LET, so that it is computed once. *)
(***************************************************************************)
EXTENDS Integers, Sequences, FiniteSets, TLC

VARIABLES
    content,       \* linter.content: the YAML stream handed to the check
    mode,          \* args.mode
    pc,            \* "start" | "walk" | "done": position in check_alpha_spec
    nodes,         \* the composed node graph: node id -> node
    root,          \* id of the root node (0: none)
    anchors,       \* loader.document_anchors[0]: sequence of [name, node]
    used_anchors,  \* the used_anchors set of the current walk
    todo,          \* the walk's remaining calls of check_package_spec (node ids)
    calls,         \* history: one record per call of check_package_spec
    warnings,      \* linter.warnings, in the order add_warning was called
    fatal,         \* "" or the exception that ended check_alpha_spec
    round,         \* 1 for the first run, +1 for each re-run after a fix
    fixed          \* the warning whose replacement produced the current content

vars == << content, mode, pc, nodes, root, anchors, used_anchors, todo, calls,
           warnings, fatal, round, fixed >>

----------------------------------------------------------------------------
(* Characters and strings                                                  *)

\* The characters of the model, in code point order (Python compares str by
\* code point).
CodePointOrder ==
    << "\n", " ", "!", "\"", "&", "*", ",", "-", ".",
       "0", "1", "2", "3", "4", "5", "6", "7", "8", "9",
       "<", "=", ">", "[", "]", "_",
       "a", "b", "c", "d", "e", "f", "g", "h", "i", "j", "k", "l", "m",
       "n", "o", "p", "q", "r", "s", "t", "u", "v", "w", "x", "y", "z", "~" >>

Ord(c) == CHOOSE i \in 1..Len(CodePointOrder) : CodePointOrder[i] = c

Digits == {"0", "1", "2", "3", "4", "5", "6", "7", "8", "9"}

Letters ==
    {"a", "b", "c", "d", "e", "f", "g", "h", "i", "j", "k", "l", "m",
     "n", "o", "p", "q", "r", "s", "t", "u", "v", "w", "x", "y", "z"}

Min(a, b) == IF a < b THEN a ELSE b

\* Python's str.__lt__: lexicographic by code point, a proper prefix is less.
StrLt(a, b) ==
    \/ \E i \in 1..Min(Len(a), Len(b)) :
          /\ \A j \in 1..(i - 1) : a[j] = b[j]
          /\ Ord(a[i]) < Ord(b[i])
    \/ /\ Len(a) < Len(b)
       /\ \A j \in 1..Len(a) : a[j] = b[j]

RECURSIVE Join(_, _)
\* sep.join(list)
Join(list, sep) ==
    IF list = << >> THEN << >>
    ELSE IF Len(list) = 1 THEN list[1]
    ELSE list[1] \o sep \o Join(Tail(list), sep)

\* Index of the first occurrence of character c in s at or after i (0: none).
Find(s, c, i) ==
    IF \E k \in i..Len(s) : s[k] = c
    THEN CHOOSE k \in i..Len(s) : s[k] = c /\ \A j \in i..(k - 1) : s[j] # c
    ELSE 0

RECURSIVE Split(_, _)
\* s.split(c)
Split(s, c) ==
    LET At(k) == IF k = 0 THEN << s >>
                 ELSE << SubSeq(s, 1, k - 1) >> \o Split(SubSeq(s, k + 1, Len(s)), c)
    IN  At(Find(s, c, 1))

\* The elements of a sequence, as a set.
Range(s) == { s[i] : i \in 1..Len(s) }

\* Every order in which the elements of the finite set S can be enumerated.
Enumerations(S) ==
    { f \in [1..Cardinality(S) -> S] : \A x \in S : \E i \in 1..Cardinality(S) : f[i] = x }

----------------------------------------------------------------------------
(* Configuration (alpha_spec.py lines 23-68)                               *)

RAPIDS_ALPHA_SPEC_PACKAGES ==
    { <<"c","u","b","i","n","l","i","n","k","e","r">>,
      <<"c","u","c","i","m">>,
      <<"c","u","d","f">>,
      <<"c","u","g","r","a","p","h">>,
      <<"c","u","g","r","a","p","h","-","d","g","l">>,
      <<"c","u","g","r","a","p","h","-","e","q","u","i","v","a","r","i","a","n","t">>,
      <<"c","u","g","r","a","p","h","-","p","y","g">>,
      <<"c","u","m","l">>,
      <<"c","u","p","r","o","j">>,
      <<"c","u","s","p","a","t","i","a","l">>,
      <<"c","u","x","f","i","l","t","e","r">>,
      <<"d","a","s","k","-","c","u","d","a">>,
      <<"d","a","s","k","-","c","u","d","f">>,
      <<"d","i","s","t","r","i","b","u","t","e","d","-","u","c","x","x">>,
      <<"l","i","b","r","m","m">>,
      <<"l","i","b","u","c","x">>,
      <<"n","x","-","c","u","g","r","a","p","h">>,
      <<"p","t","x","c","o","m","p","i","l","e","r">>,
      <<"p","y","l","i","b","c","u","g","r","a","p","h">>,
      <<"p","y","l","i","b","c","u","g","r","a","p","h","o","p","s">>,
      <<"p","y","l","i","b","r","a","f","t">>,
      <<"p","y","l","i","b","w","h","o","l","e","g","r","a","p","h">>,
      <<"p","y","n","v","j","i","t","l","i","n","k">>,
      <<"r","a","f","t","-","d","a","s","k">>,
      <<"r","m","m">>,
      <<"u","c","x","-","p","y">>,
      <<"u","c","x","x">> }

RAPIDS_NON_CUDA_SUFFIXED_PACKAGES == { <<"d","a","s","k","-","c","u","d","a">> }

RAPIDS_CUDA_SUFFIXED_PACKAGES ==
    RAPIDS_ALPHA_SPEC_PACKAGES \ RAPIDS_NON_CUDA_SUFFIXED_PACKAGES

ALPHA_SPECIFIER == <<">","=","0",".","0",".","0","a","0">>

\* CUDA_SUFFIX_REGEX.search(name): ^(?P<package>.*)-cu[0-9]{2}$ . The result is
\* [matched, package]. (A name holds no line break, so $ is the end of the name.)
CUDA_SUFFIX_REGEX(name) ==
    LET Match(n) ==
            IF /\ n >= 5
               /\ name[n - 4] = "-" /\ name[n - 3] = "c" /\ name[n - 2] = "u"
               /\ name[n - 1] \in Digits /\ name[n] \in Digits
            THEN [matched |-> TRUE, package |-> SubSeq(name, 1, n - 5)]
            ELSE [matched |-> FALSE, package |-> << >>]
    IN  Match(Len(name))

\* A plausible slip: the suffix is matched against every tracked package, the
\* exempt one included.
is_rapids_cuda_suffixed_package_All(name) ==
    \E match \in {CUDA_SUFFIX_REGEX(name)} :
        \E package \in RAPIDS_ALPHA_SPEC_PACKAGES :
            match.matched /\ match.package = package

is_rapids_cuda_suffixed_package(name) ==
    \E match \in {CUDA_SUFFIX_REGEX(name)} :
        \E package \in RAPIDS_CUDA_SUFFIXED_PACKAGES :
            match.matched /\ match.package = package

----------------------------------------------------------------------------
(* SpecPriority and create_specifier_string (lines 83-104)                 *)

sort_str(spec) == SelectSeq(spec, LAMBDA c : c \notin {"<", ">", "="})

\* A plausible slip: the alpha specifier is ordered by its text like the rest.
SpecPriority_lt_NoSentinel(self, other) ==
    IF self = other THEN FALSE
    ELSE \E a \in {sort_str(self)}, b \in {sort_str(other)} : StrLt(a, b)

\* SpecPriority.__lt__
SpecPriority_lt(self, other) ==
    IF self = other THEN FALSE
    ELSE IF self = ALPHA_SPECIFIER THEN FALSE
    ELSE IF other = ALPHA_SPECIFIER THEN TRUE
    ELSE \E a \in {sort_str(self)}, b \in {sort_str(other)} : StrLt(a, b)

RECURSIVE InsertSorted(_, _)
\* x goes before the first element greater than it, so after its equals.
InsertSorted(acc, x) ==
    IF acc = << >> THEN << x >>
    ELSE IF SpecPriority_lt(x, Head(acc)) THEN << x >> \o acc
    ELSE << Head(acc) >> \o InsertSorted(Tail(acc), x)

RECURSIVE SortFrom(_, _)
SortFrom(acc, list) ==
    IF list = << >> THEN acc
    ELSE SortFrom(InsertSorted(acc, Head(list)), Tail(list))

\* sorted(specifiers, key=SpecPriority): Python's sort is stable and compares
\* with __lt__ only. The argument is the set's elements in iteration order.
sorted(specifiers) == SortFrom(<< >>, specifiers)

create_specifier_string(specifiers) == Join(sorted(specifiers), <<",">>)

----------------------------------------------------------------------------
(* packaging.requirements.Requirement, for the requirement strings of the  *)
(* model: a name, then comma-separated clauses of an operator and a        *)
(* version. Extras, markers, URLs, white space and the operators != and    *)
(* === are not modelled.                                                   *)

NameChars == Letters \cup Digits \cup {"-", ".", "_"}

VersionChars == Digits \cup {".", "a"}

\* Length of the longest prefix of s made of characters of S.
PrefixLen(s, S) ==
    CHOOSE k \in 0..Len(s) :
        /\ \A i \in 1..k : s[i] \in S
        /\ (k < Len(s) => s[k + 1] \notin S)

Operators2 == { <<">","=">>, <<"<","=">>, <<"=","=">>, <<"~","=">> }

Operators1 == { <<">">>, <<"<">> }

OperatorLen(clause) ==
    IF Len(clause) >= 2 /\ SubSeq(clause, 1, 2) \in Operators2 THEN 2
    ELSE IF Len(clause) >= 1 /\ SubSeq(clause, 1, 1) \in Operators1 THEN 1
    ELSE 0

IsClause(clause) ==
    \E k \in {OperatorLen(clause)} :
        /\ k > 0
        /\ Len(clause) > k
        /\ clause[k + 1] \in Digits
        /\ \A i \in (k + 1)..Len(clause) : clause[i] \in VersionChars

InvalidRequirement == [ok |-> FALSE, name |-> << >>, specifier |-> {}]

\* Requirement(value): [ok, name, specifier], specifier the set of str(s) for
\* s in req.specifier. ok = FALSE stands for InvalidRequirement.
Requirement(value) ==
    LET Parsed(name, cls) ==
            IF \A i \in 1..Len(cls) : IsClause(cls[i])
            THEN [ok |-> TRUE, name |-> name, specifier |-> Range(cls)]
            ELSE InvalidRequirement
        Name(k) ==
            IF k = 0 \/ value[1] \notin (Letters \cup Digits)
               \/ value[k] \notin (Letters \cup Digits)
            THEN InvalidRequirement
            ELSE Parsed(SubSeq(value, 1, k),
                        IF k = Len(value) THEN << >>
                        ELSE Split(SubSeq(value, k + 1, Len(value)), ","))
    IN  Name(PrefixLen(value, NameChars))

----------------------------------------------------------------------------
(* The YAML stream.                                                        *)
(*                                                                         *)
(* content is [docs, variant, swapped, alias2, l1, l2]. docs is the number *)
(* of documents in the stream. The first document is                       *)
(*                                                                         *)
(*   dependencies:            node 1 (key to node 2)                       *)
(*     x:                     node 2 (key to node 3)                       *)
(*       common:              node 3 (keys to nodes 4 and 7)               *)
(*         - packages: l1     node 4, item 5, key to node 6                *)
(*       specific:                                                         *)
(*         - matrices:        node 7, item 8, key to node 9                *)
(*             - packages: l2 node 9, item 10, key to node 11              *)
(*                                                                         *)
(* where l1 and l2 are the texts of the two 'packages' values, scanned     *)
(* character by character. variant changes one place of this shape,        *)
(* swapped puts 'specific' before 'common', and alias2 makes the second    *)
(* value an alias of the first, which then carries the anchor p.           *)

YamlNs == "tag:yaml.org,2002:"

YamlTag(tag_type) == [ns |-> YamlNs, type |-> tag_type]

CustomTag == [ns |-> "!", type |-> "custom"]

NoAnchor == << >>

MapNode(tag, pairs) ==
    [kind |-> "map", tag |-> tag, value |-> << >>, items |-> << >>,
     pairs |-> pairs, start |-> 0, end |-> 0]

SeqNode(tag, items) ==
    [kind |-> "seq", tag |-> tag, value |-> << >>, items |-> items,
     pairs |-> << >>, start |-> 0, end |-> 0]

ScalarNode(tag, value, start, end) ==
    [kind |-> "scalar", tag |-> tag, value |-> value, items |-> << >>,
     pairs |-> << >>, start |-> start, end |-> end]

\* A mapping entry: the key, a scalar node, and the id of the value node.
Pair(ktag, kvalue, v) == [key |-> [tag |-> ktag, value |-> kvalue], v |-> v]

ScanError == [ok |-> FALSE, kind |-> "error", anchor |-> NoAnchor, tag |-> CustomTag,
              value |-> << >>, start |-> 0, end |-> 0, next |-> 0]

\* The characters that end a plain scalar: the flow indicators inside a flow
\* collection, the line break outside.
PlainEnd(flow) == IF flow THEN {",", "[", "]"} ELSE {"\n"}

\* yaml.scanner.Scanner.check_plain: the characters that cannot start a plain
\* scalar, with the exception for '-' followed by a non-space.
CanStartPlain(text, i) ==
    \/ text[i] \notin {"\n", " ", "-", ",", "[", "]", "&", "*", "!", ">", "\""}
    \/ text[i] = "-" /\ i < Len(text) /\ text[i + 1] \notin {" ", "\n"}

\* First position at or after i holding a character of S (Len + 1: none).
FindAny(text, S, i) ==
    IF \E k \in i..Len(text) : text[k] \in S
    THEN CHOOSE k \in i..Len(text) :
             text[k] \in S /\ \A j \in i..(k - 1) : text[j] \notin S
    ELSE Len(text) + 1

\* yaml.resolver: the implicit tag of a plain scalar.
ResolvePlain(value) ==
    IF \A i \in 1..Len(value) : value[i] \in Digits THEN YamlTag("int")
    ELSE IF /\ value[1] \in Digits
            /\ \A i \in 1..Len(value) : value[i] \in Digits \cup {"."}
            /\ Cardinality({i \in 1..Len(value) : value[i] = "."}) = 1
    THEN YamlTag("float")
    ELSE YamlTag("str")

\* The scalar starting at position i (1-based) of text; from is the position
\* where the node starts (that of its anchor, if it has one). Marks are the
\* 0-based indexes of the text, as in node.start_mark.index.
ScanScalar(text, i, flow, anchor, from) ==
    IF i > Len(text) THEN ScanError
    ELSE IF text[i] = "\""
    THEN LET Closed(k) ==
                 IF k = 0 THEN ScanError
                 ELSE [ok |-> TRUE, kind |-> "scalar", anchor |-> anchor,
                       tag |-> YamlTag("str"), value |-> SubSeq(text, i + 1, k - 1),
                       start |-> from - 1, end |-> k, next |-> k + 1]
         IN  Closed(Find(text, "\"", i + 1))
    ELSE IF CanStartPlain(text, i)
    THEN LET Plain(k, value) ==
                 [ok |-> TRUE, kind |-> "scalar", anchor |-> anchor,
                  tag |-> ResolvePlain(value), value |-> value,
                  start |-> from - 1, end |-> k - 1, next |-> k]
             Upto(k) == Plain(k, SubSeq(text, i, k - 1))
         IN  Upto(FindAny(text, PlainEnd(flow) \cup {" "}, i))
    ELSE ScanError

\* One node of a sequence: &anchor scalar, *alias or scalar.
ScanElem(text, i, flow) ==
    IF i > Len(text) THEN ScanError
    ELSE IF text[i] = "&"
    THEN LET Named(sp) ==
                 IF sp <= i + 1 THEN ScanError
                 ELSE ScanScalar(text, sp + 1, flow, SubSeq(text, i + 1, sp - 1), i)
         IN  Named(Find(text, " ", i))
    ELSE IF text[i] = "*"
    THEN LET Alias(k) ==
                 IF k = i + 1 THEN ScanError
                 ELSE [ok |-> TRUE, kind |-> "alias",
                       anchor |-> SubSeq(text, i + 1, k - 1),
                       tag |-> CustomTag, value |-> << >>, start |-> i - 1,
                       end |-> k - 1, next |-> k]
         IN  Alias(FindAny(text, PlainEnd(flow) \cup {" "}, i))
    ELSE ScanScalar(text, i, flow, NoAnchor, i)

SkipSpaces(text, i) ==
    IF \E k \in i..Len(text) : text[k] # " "
    THEN CHOOSE k \in i..Len(text) : text[k] # " " /\ \A j \in i..(k - 1) : text[j] = " "
    ELSE Len(text) + 1

RECURSIVE ScanFlow(_, _, _)
\* The entries of the flow sequence [e, e, ...], from position i on.
ScanFlow(text, i, acc) ==
    LET After(e, j) ==
            IF j > Len(text) THEN [ok |-> FALSE, toks |-> << >>]
            ELSE IF text[j] = ","
            THEN ScanFlow(text, SkipSpaces(text, j + 1), Append(acc, e))
            ELSE IF text[j] = "]" /\ j = Len(text)
            THEN [ok |-> TRUE, toks |-> Append(acc, e)]
            ELSE [ok |-> FALSE, toks |-> << >>]
        Entry(e) ==
            IF ~e.ok THEN [ok |-> FALSE, toks |-> << >>]
            ELSE After(e, SkipSpaces(text, e.next))
    IN  Entry(ScanElem(text, i, TRUE))

RECURSIVE ScanBlock(_, _, _)
\* The entries of the block sequence "- e\n- e\n...", from position i on.
ScanBlock(text, i, acc) ==
    IF i > Len(text) THEN [ok |-> TRUE, toks |-> acc]
    ELSE IF i + 1 > Len(text) \/ text[i] # "-" \/ text[i + 1] # " "
    THEN [ok |-> FALSE, toks |-> << >>]
    ELSE LET Entry(e) ==
                 IF ~e.ok \/ e.next > Len(text) \/ text[e.next] # "\n"
                 THEN [ok |-> FALSE, toks |-> << >>]
                 ELSE ScanBlock(text, e.next + 1, Append(acc, e))
         IN  Entry(ScanElem(text, i + 2, FALSE))

\* The value of a 'packages' key: a flow sequence, a block sequence or a
\* single scalar. [ok, list, toks].
ScanValue(text) ==
    IF text = << >> THEN [ok |-> FALSE, list |-> FALSE, toks |-> << >>]
    ELSE IF text[1] = "["
    THEN IF Len(text) = 2 /\ text[2] = "]"
         THEN [ok |-> TRUE, list |-> TRUE, toks |-> << >>]
         ELSE LET List(r) == [ok |-> r.ok, list |-> TRUE, toks |-> r.toks]
              IN  List(ScanFlow(text, SkipSpaces(text, 2), << >>))
    ELSE IF Len(text) >= 2 /\ text[1] = "-" /\ text[2] = " "
    THEN LET List(r) == [ok |-> r.ok, list |-> TRUE, toks |-> r.toks]
         IN  List(ScanBlock(text, 1, << >>))
    ELSE LET Scalar(e) ==
                 [ok |-> e.ok /\ e.kind = "scalar" /\ e.next = Len(text) + 1,
                  list |-> FALSE, toks |-> << e >>]
         IN  Scalar(ScanElem(text, 1, FALSE))

----------------------------------------------------------------------------
(* yaml.composer and AnchorPreservingLoader (lines 225-247)                *)

\* Length of the text in front of each 'packages' value.
HeaderLen == 40

SlotId(k) == IF k = 1 THEN 6 ELSE 11

\* Ids of the scalars of the 'packages' values follow those of the envelope.
FirstLeaf == SlotId(2) + 1

AnchorP == << "p" >>

SlotText(c, k) == IF k = 1 THEN c.l1 ELSE c.l2

\* Index in the stream of the first character of the k-th 'packages' value.
SlotBase(c, k) ==
    IF (k = 1) = ~c.swapped THEN HeaderLen
    ELSE 2 * HeaderLen + Len(SlotText(c, 3 - k))

\* self.anchors[name] (0: no such anchor)
AnchorLookup(table, name) ==
    IF \E i \in 1..Len(table) : table[i].name = name
    THEN table[CHOOSE i \in 1..Len(table) : table[i].name = name].node
    ELSE 0

ComposeFail == [ok |-> FALSE, leaves |-> << >>, anchors |-> << >>, items |-> << >>]

RECURSIVE ComposeToks(_, _, _, _)
\* compose_node on each entry of a sequence: an alias is the node its anchor
\* names (an unknown anchor is a ComposerError), an anchor that is already
\* defined is a ComposerError, any other scalar is a new node.
ComposeToks(toks, i, base, st) ==
    IF i > Len(toks) THEN st
    ELSE LET Node(tok, id, bound) ==
             IF tok.kind = "alias"
             THEN IF bound = 0 THEN ComposeFail
                  ELSE ComposeToks(toks, i + 1, base,
                         [st EXCEPT !.items = Append(@, bound)])
             ELSE IF tok.anchor # NoAnchor /\ bound # 0
             THEN ComposeFail
             ELSE ComposeToks(toks, i + 1, base,
                    [ok      |-> TRUE,
                     leaves  |-> Append(st.leaves,
                                   ScalarNode(tok.tag, tok.value,
                                              base + tok.start, base + tok.end)),
                     anchors |-> IF tok.anchor = NoAnchor THEN st.anchors
                                 ELSE Append(st.anchors, [name |-> tok.anchor, node |-> id]),
                     items   |-> Append(st.items, id)])
         IN  Node(toks[i], FirstLeaf + Len(st.leaves),
                  AnchorLookup(st.anchors, toks[i].anchor))

\* The tag of envelope node n: t, or a custom tag in the variant that tags it.
TagAt(c, n, t) ==
    IF c.variant.how = "tag" /\ c.variant.at = n THEN CustomTag ELSE YamlTag(t)

\* The mapping entry whose value is node n (v: the id of the value).
KeyTo(c, n, k, v) ==
    Pair(IF c.variant.how = "keytag" /\ c.variant.at = n THEN YamlTag("binary")
         ELSE YamlTag("str"),
         IF c.variant.how = "key" /\ c.variant.at = n THEN "other" ELSE k,
         v)

\* The k-th 'packages' value, composed with the anchors defined before it:
\* [ok, node, leaves, anchors]. When the value is the alias, node is unused.
ComposeSlot(c, k, leaves, table) ==
    LET Failed == [ok |-> FALSE, node |-> SeqNode(CustomTag, << >>),
                   leaves |-> leaves, anchors |-> table]
        Sequence(r) ==
            [ok |-> r.ok, node |-> SeqNode(TagAt(c, SlotId(k), "seq"), r.items),
             leaves |-> r.leaves, anchors |-> r.anchors]
        Scalar(tok, t1) ==
            [ok |-> tok.anchor = NoAnchor,
             node |-> ScalarNode(IF TagAt(c, SlotId(k), "seq") = CustomTag
                                 THEN CustomTag ELSE tok.tag,
                                 tok.value, SlotBase(c, k) + tok.start,
                                 SlotBase(c, k) + tok.end),
             leaves |-> leaves, anchors |-> t1]
        Value(v, t1) ==
            IF ~v.ok \/ (c.alias2 /\ k = 1 /\ AnchorLookup(table, AnchorP) # 0)
            THEN Failed
            ELSE IF v.list
            THEN Sequence(ComposeToks(v.toks, 1, SlotBase(c, k),
                                      [ok |-> TRUE, leaves |-> leaves, anchors |-> t1,
                                       items |-> << >>]))
            ELSE Scalar(v.toks[1], t1)
    IN  IF c.alias2 /\ k = 2
        THEN [ok |-> AnchorLookup(table, AnchorP) # 0,
              node |-> SeqNode(CustomTag, << >>), leaves |-> leaves, anchors |-> table]
        ELSE Value(ScanValue(SlotText(c, k)),
                   IF c.alias2 /\ k = 1
                   THEN Append(table, [name |-> AnchorP, node |-> SlotId(k)])
                   ELSE table)

\* The envelope of the document around the two 'packages' values, whose
\* nodes are n1 and n2 (n2 is unused when the second value is the alias).
Envelope(c, n1, n2) ==
    LET v2 == IF c.alias2 THEN SlotId(1) ELSE SlotId(2)
        common   == KeyTo(c, 4, "common", 4)
        specific == KeyTo(c, 7, "specific", 7)
    IN  (1 :> MapNode(TagAt(c, 1, "map"), << KeyTo(c, 2, "dependencies", 2) >>))
     @@ (2 :> MapNode(TagAt(c, 2, "map"), << KeyTo(c, 3, "x", 3) >>))
     @@ (3 :> MapNode(TagAt(c, 3, "map"),
                      IF c.swapped THEN << specific, common >>
                      ELSE << common, specific >>))
     @@ (4 :> SeqNode(TagAt(c, 4, "seq"), << 5 >>))
     @@ (5 :> MapNode(TagAt(c, 5, "map"), << KeyTo(c, 6, "packages", 6) >>))
     @@ (6 :> n1)
     @@ (7 :> SeqNode(TagAt(c, 7, "seq"), << 8 >>))
     @@ (IF c.variant.how = "direct"
         THEN (8 :> MapNode(TagAt(c, 8, "map"), << KeyTo(c, 11, "packages", v2) >>))
         ELSE (8 :> MapNode(TagAt(c, 8, "map"), << KeyTo(c, 9, "matrices", 9) >>))
           @@ (9 :> SeqNode(TagAt(c, 9, "seq"), << 10 >>))
           @@ (10 :> MapNode(TagAt(c, 10, "map"), << KeyTo(c, 11, "packages", v2) >>)))
     @@ (IF c.alias2 THEN << >> ELSE (11 :> n2))

\* compose_document: the root node (id 1), the node graph and the anchors of
\* the first document, which compose_document appends to document_anchors.
\* The values are composed in the order they have in the text.
compose_document(c) ==
    LET Doc(r1, r2, last) ==
            IF ~last.ok THEN [ok |-> FALSE, nodes |-> << >>, anchors |-> << >>]
            ELSE [ok |-> TRUE,
                  nodes |-> Envelope(c, r1.node, r2.node)
                            @@ [id \in FirstLeaf..(FirstLeaf + Len(last.leaves) - 1) |->
                                   last.leaves[id - FirstLeaf + 1]],
                  anchors |-> last.anchors]
        Second(ra, rb) == IF c.swapped THEN Doc(rb, ra, rb) ELSE Doc(ra, rb, rb)
        First(ra) ==
            Second(ra, IF ra.ok
                       THEN ComposeSlot(c, IF c.swapped THEN 1 ELSE 2, ra.leaves, ra.anchors)
                       ELSE ra)
    IN  First(ComposeSlot(c, IF c.swapped THEN 2 ELSE 1, << >>, << >>))

----------------------------------------------------------------------------
(* The schema walk (lines 71-72 and 154-222). Each check_* function is the *)
(* sequence of check_package_spec calls it makes, as node ids in the order *)
(* of the calls: the walk reads the node graph only.                       *)

node_has_type(node, tag_type) == node.tag = YamlTag(tag_type)

RECURSIVE Flatten(_)
Flatten(ss) == IF ss = << >> THEN << >> ELSE Head(ss) \o Flatten(Tail(ss))

check_packages(ns, node) ==
    IF node_has_type(ns[node], "seq") THEN ns[node].items ELSE << >>

check_common(ns, node) ==
    IF node_has_type(ns[node], "seq")
    THEN Flatten([i \in 1..Len(ns[node].items) |->
            LET dependency_set == ns[ns[node].items[i]] IN
            IF node_has_type(dependency_set, "map")
            THEN Flatten([j \in 1..Len(dependency_set.pairs) |->
                    LET kv == dependency_set.pairs[j] IN
                    IF node_has_type(kv.key, "str") /\ kv.key.value = "packages"
                    THEN check_packages(ns, kv.v)
                    ELSE << >>])
            ELSE << >>])
    ELSE << >>

check_matrices(ns, node) ==
    IF node_has_type(ns[node], "seq")
    THEN Flatten([i \in 1..Len(ns[node].items) |->
            LET item == ns[ns[node].items[i]] IN
            IF node_has_type(item, "map")
            THEN Flatten([j \in 1..Len(item.pairs) |->
                    LET kv == item.pairs[j] IN
                    IF node_has_type(kv.key, "str") /\ kv.key.value = "packages"
                    THEN check_packages(ns, kv.v)
                    ELSE << >>])
            ELSE << >>])
    ELSE << >>

\* A plausible slip: 'packages' directly under a 'specific' item is walked too.
check_specific_Direct(ns, node) ==
    IF node_has_type(ns[node], "seq")
    THEN Flatten([i \in 1..Len(ns[node].items) |->
            LET matrix_matcher == ns[ns[node].items[i]] IN
            IF node_has_type(matrix_matcher, "map")
            THEN Flatten([j \in 1..Len(matrix_matcher.pairs) |->
                    LET kv == matrix_matcher.pairs[j] IN
                    IF node_has_type(kv.key, "str") /\ kv.key.value = "matrices"
                    THEN check_matrices(ns, kv.v)
                    ELSE IF node_has_type(kv.key, "str") /\ kv.key.value = "packages"
                    THEN check_packages(ns, kv.v)
                    ELSE << >>])
            ELSE << >>])
    ELSE << >>

check_specific(ns, node) ==
    IF node_has_type(ns[node], "seq")
    THEN Flatten([i \in 1..Len(ns[node].items) |->
            LET matrix_matcher == ns[ns[node].items[i]] IN
            IF node_has_type(matrix_matcher, "map")
            THEN Flatten([j \in 1..Len(matrix_matcher.pairs) |->
                    LET kv == matrix_matcher.pairs[j] IN
                    IF node_has_type(kv.key, "str") /\ kv.key.value = "matrices"
                    THEN check_matrices(ns, kv.v)
                    ELSE << >>])
            ELSE << >>])
    ELSE << >>

check_dependencies(ns, node) ==
    IF node_has_type(ns[node], "map")
    THEN Flatten([i \in 1..Len(ns[node].pairs) |->
            LET dependencies_value == ns[ns[node].pairs[i].v] IN
            IF node_has_type(dependencies_value, "map")
            THEN Flatten([j \in 1..Len(dependencies_value.pairs) |->
                    LET kv == dependencies_value.pairs[j] IN
                    IF node_has_type(kv.key, "str")
                    THEN IF kv.key.value = "common" THEN check_common(ns, kv.v)
                         ELSE IF kv.key.value = "specific" THEN check_specific(ns, kv.v)
                         ELSE << >>
                    ELSE << >>])
            ELSE << >>])
    ELSE << >>

check_root(ns, node) ==
    IF node_has_type(ns[node], "map")
    THEN Flatten([i \in 1..Len(ns[node].pairs) |->
            LET kv == ns[node].pairs[i] IN
            IF node_has_type(kv.key, "str") /\ kv.key.value = "dependencies"
            THEN check_dependencies(ns, kv.v)
            ELSE << >>])
    ELSE << >>

----------------------------------------------------------------------------
(* check_package_spec (lines 82-151)                                       *)

\* lines 111-113
is_tracked(name) ==
    name \in RAPIDS_ALPHA_SPEC_PACKAGES \/ is_rapids_cuda_suffixed_package(name)

\* A plausible slip: the anchor table is not consulted.
node_anchor_None(table, node) == NoAnchor

\* lines 114-119: the first anchor bound to the node, or None
node_anchor(table, node) ==
    IF \E i \in 1..Len(table) : table[i].node = node
    THEN table[CHOOSE i \in 1..Len(table) :
                   table[i].node = node /\ \A j \in 1..(i - 1) : table[j].node # node].name
    ELSE NoAnchor

\* A plausible slip: a clause that starts like the alpha specifier counts.
has_alpha_spec_Prefix(req) ==
    \E s \in req.specifier : Len(s) >= 2 /\ SubSeq(s, 1, 2) = SubSeq(ALPHA_SPECIFIER, 1, 2)

\* line 123
has_alpha_spec(req) == \E s \in req.specifier : s = ALPHA_SPECIFIER

\* A plausible slip: the anchor is not written back.
replacement_text_NoAnchor(anchor, name, specifiers) ==
    name \o create_specifier_string(specifiers)

\* lines 130-136 and 144-150; specifiers is the set in its iteration order
replacement_text(anchor, name, specifiers) ==
    (IF anchor # NoAnchor THEN << "&" >> \o anchor \o << " " >> ELSE << >>)
        \o name \o create_specifier_string(specifiers)

Warning(node, text, name, replacement) ==
    [span |-> << node.start, node.end >>,
     msg  |-> [text |-> text, name |-> name],
     replacement |-> [span |-> << node.start, node.end >>, text |-> replacement]]

\* The set handed to create_specifier_string (lines 134 and 148).
FixSpecifiers(m, req) ==
    IF m = "development" THEN req.specifier \cup {ALPHA_SPECIFIER}
    ELSE req.specifier \ {ALPHA_SPECIFIER}

\* lines 120-151, for a tracked requirement: [emit, warning, used]
PolicyEngine(node, req, anchor, used, m, enum) ==
    LET Result(go, add, remove) ==
            [emit    |-> add \/ remove,
             warning |-> Warning(node,
                           IF add THEN "add alpha spec for RAPIDS package "
                           ELSE "remove alpha spec for RAPIDS package ",
                           req.name, replacement_text(anchor, req.name, enum)),
             used    |-> IF go /\ anchor # NoAnchor THEN used \cup {anchor} ELSE used]
        Mode(go, alpha) ==
            Result(go, go /\ m = "development" /\ ~alpha,
                   go /\ m # "development" /\ m = "release" /\ alpha)
    IN  Mode(req.ok /\ is_tracked(req.name) /\ anchor \notin used,
             has_alpha_spec(req))

\* The body of check_package_spec on node id, with the set of the fix
\* iterated in the order enum: [emit, warning, used].
check_package_spec(ns, table, used, m, id, enum) ==
    PolicyEngine(ns[id],
                 IF node_has_type(ns[id], "str") THEN Requirement(ns[id].value)
                 ELSE InvalidRequirement,
                 node_anchor(table, id), used, m, enum)

\* The orders in which the set of the fix may be iterated.
FixEnumerations(ns, m, id) ==
    IF node_has_type(ns[id], "str")
    THEN Enumerations(FixSpecifiers(m, Requirement(ns[id].value)))
    ELSE { << >> }

----------------------------------------------------------------------------
(* Inputs                                                                  *)

\* Most entries of one 'packages' sequence.
MaxElems == 2

\* Most documents in the stream.
MaxDocs == 2

\* Most runs of the check on one file: the first, then one after each fix.
MaxRounds == 2

cudf == <<"c","u","d","f">>

rmm == <<"r","m","m">>

numpy == <<"n","u","m","p","y">>

dask_cuda == <<"d","a","s","k","-","c","u","d","a">>

Cu12 == <<"-","c","u","1","2">>

GE1 == <<">","=","1",".","0">>

LE1 == <<"<","=","1",".","0">>

GE2 == <<">","=","2">>

EQ1 == <<"=","=","1",".","0">>

Comma == <<",">>

Quoted(t) == <<"\"">> \o t \o <<"\"">>

Anchored(t) == <<"&","a"," ">> \o t

\* The texts of the entries of a 'packages' sequence.
ElemTexts ==
    { cudf,
      cudf \o GE1,
      Quoted(cudf \o GE1 \o Comma \o ALPHA_SPECIFIER),
      Quoted(cudf \o GE1 \o Comma \o LE1),
      cudf \o EQ1,
      Quoted(cudf \o GE2 \o Comma \o ALPHA_SPECIFIER \o Comma \o LE1),
      Anchored(cudf \o GE1),
      Anchored(Quoted(rmm \o ALPHA_SPECIFIER)),
      <<"*","a">>,
      rmm \o Cu12,
      Quoted(rmm \o Cu12 \o GE1 \o Comma \o ALPHA_SPECIFIER),
      dask_cuda \o Cu12,
      Quoted(dask_cuda \o Cu12 \o ALPHA_SPECIFIER),
      dask_cuda \o ALPHA_SPECIFIER,
      numpy,
      Quoted(numpy \o ALPHA_SPECIFIER),
      <<"1","2">>,
      cudf \o <<">","=">>,
      <<"\"">> \o cudf }

FlowList(elems) == <<"[">> \o Join(elems, <<",", " ">>) \o <<"]">>

BlockList(elems) ==
    Flatten([i \in 1..Len(elems) |-> <<"-", " ">> \o elems[i] \o <<"\n">>])

ElemLists == UNION { [1..n -> ElemTexts] : n \in 1..MaxElems }

\* The texts of the first 'packages' value.
ValueTexts ==
    { FlowList(es) : es \in ElemLists } \cup { BlockList(es) : es \in ElemLists }
        \cup { cudf \o GE1 }

\* A few of them, for the documents whose shape varies.
SmallTexts ==
    { BlockList(<< cudf, Anchored(cudf \o GE1), <<"*","a">> >>),
      FlowList(<< Quoted(rmm \o Cu12 \o GE1 \o Comma \o ALPHA_SPECIFIER), numpy >>) }

\* The texts of the second 'packages' value.
SecondTexts ==
    { BlockList(<< cudf >>),
      FlowList(<< Quoted(rmm \o ALPHA_SPECIFIER), <<"*","a">> >>) }

Ok == [at |-> 0, how |-> "ok"]

\* One place of the document's shape changed: node at carries a custom tag,
\* or the key of node at is another word, or that key is not a string, or
\* 'packages' sits directly under the 'specific' item.
Variants ==
    { Ok, [at |-> 0, how |-> "direct"] }
        \cup { [at |-> n, how |-> "tag"] : n \in 1..11 }
        \cup { [at |-> n, how |-> h] : n \in {2, 3, 4, 6, 7, 9, 11}, h \in {"key", "keytag"} }

Content(docs, variant, swapped, alias2, l1, l2) ==
    [docs |-> docs, variant |-> variant, swapped |-> swapped, alias2 |-> alias2,
     l1 |-> l1, l2 |-> l2]

\* The second value: the alias of the first, or a text of its own.
Seconds == { << TRUE, << >> >> } \cup { << FALSE, t >> : t \in SecondTexts }

InitialContents ==
    { Content(1, Ok, FALSE, s[1], l1, s[2]) : l1 \in ValueTexts, s \in Seconds }
        \cup { Content(1, v, sw, s[1], l1, s[2]) :
                 v \in Variants, sw \in BOOLEAN, l1 \in SmallTexts, s \in Seconds }
        \cup { Content(d, Ok, FALSE, FALSE, l1, BlockList(<< cudf >>)) :
                 d \in 0..MaxDocs, l1 \in SmallTexts }

----------------------------------------------------------------------------
(* check_alpha_spec (lines 250-256) and the application of a fix           *)

NoWarning == [span |-> << 0, 0 >>, msg |-> [text |-> "", name |-> << >>],
              replacement |-> [span |-> << 0, 0 >>, text |-> << >>]]

Init ==
    /\ content \in InitialContents
    /\ mode \in {"development", "release"}
    /\ pc = "start"
    /\ nodes = << >>
    /\ root = 0
    /\ anchors = << >>
    /\ used_anchors = {}
    /\ todo = << >>
    /\ calls = << >>
    /\ warnings = << >>
    /\ fatal = ""
    /\ round = 1
    /\ fixed = NoWarning

\* loader.get_single_node() raises: the first document does not scan or
\* compose, or a second document follows it. Nothing has been checked yet.
LoadYAMLError ==
    /\ pc = "start"
    /\ content.docs >= 1
    /\ ~compose_document(content).ok \/ content.docs > 1
    /\ fatal' = "YAMLError"
    /\ pc' = "done"
    /\ UNCHANGED << content, mode, nodes, root, anchors, used_anchors, todo, calls,
                    warnings, round, fixed >>

\* A stream with no document: get_single_node() returns None and
\* compose_document never ran, so document_anchors[0] raises IndexError.
LoadNoDocument ==
    /\ pc = "start"
    /\ content.docs = 0
    /\ fatal' = "IndexError"
    /\ pc' = "done"
    /\ UNCHANGED << content, mode, nodes, root, anchors, used_anchors, todo, calls,
                    warnings, round, fixed >>

\* One document: check_root(linter, args, loader.document_anchors[0], set(), root)
\* starts, with the calls of check_package_spec it will make.
Load ==
    /\ pc = "start"
    /\ content.docs = 1
    /\ \E d \in {compose_document(content)} :
        /\ d.ok
        /\ nodes' = d.nodes
        /\ root' = 1
        /\ anchors' = d.anchors
        /\ todo' = check_root(d.nodes, 1)
    /\ used_anchors' = {}
    /\ pc' = "walk"
    /\ UNCHANGED << content, mode, calls, warnings, fatal, round, fixed >>

\* The next call of check_package_spec.
CheckPackageSpec ==
    /\ pc = "walk"
    /\ todo # << >>
    /\ \E enum \in FixEnumerations(nodes, mode, Head(todo)) :
        LET r == check_package_spec(nodes, anchors, used_anchors, mode, Head(todo), enum) IN
        /\ warnings' = IF r.emit THEN Append(warnings, r.warning) ELSE warnings
        /\ used_anchors' = r.used
        /\ calls' = Append(calls, [node |-> Head(todo), used |-> used_anchors,
                                   emit |-> r.emit,
                                   widx |-> IF r.emit THEN Len(warnings) + 1 ELSE 0])
    /\ todo' = Tail(todo)
    /\ UNCHANGED << content, mode, pc, nodes, root, anchors, fatal, round, fixed >>

\* check_root returns.
Finish ==
    /\ pc = "walk"
    /\ todo = << >>
    /\ pc' = "done"
    /\ UNCHANGED << content, mode, nodes, root, anchors, used_anchors, todo, calls,
                    warnings, fatal, round, fixed >>

\* The 'packages' value (1 or 2) whose text holds span (0: none).
SlotOf(c, span) ==
    IF \E j \in 1..2 : /\ SlotBase(c, j) <= span[1]
                       /\ span[2] <= SlotBase(c, j) + Len(SlotText(c, j))
                       /\ ~(c.alias2 /\ j = 2)
    THEN CHOOSE j \in 1..2 : /\ SlotBase(c, j) <= span[1]
                             /\ span[2] <= SlotBase(c, j) + Len(SlotText(c, j))
                             /\ ~(c.alias2 /\ j = 2)
    ELSE 0

\* The stream with the characters of span replaced by text.
Replace(c, span, text) ==
    LET New(old, base) ==
            SubSeq(old, 1, span[1] - base) \o text
                \o SubSeq(old, span[2] - base + 1, Len(old))
        In(k) ==
            IF k = 1 THEN [c EXCEPT !.l1 = New(c.l1, SlotBase(c, 1))]
            ELSE IF k = 2 THEN [c EXCEPT !.l2 = New(c.l2, SlotBase(c, 2))]
            ELSE c
    IN  In(SlotOf(c, span))

\* The lint engine applies the replacement of one warning to the file, and
\* the check runs again on the result.
ApplyFix ==
    /\ pc = "done"
    /\ fatal = ""
    /\ round < MaxRounds
    /\ \E i \in 1..Len(warnings) :
        /\ content' = Replace(content, warnings[i].replacement.span,
                              warnings[i].replacement.text)
        /\ fixed' = warnings[i]
    /\ round' = round + 1
    /\ pc' = "start"
    /\ nodes' = << >>
    /\ root' = 0
    /\ anchors' = << >>
    /\ used_anchors' = {}
    /\ todo' = << >>
    /\ calls' = << >>
    /\ warnings' = << >>
    /\ UNCHANGED << mode, fatal >>

Next ==
    \/ LoadYAMLError
    \/ LoadNoDocument
    \/ Load
    \/ CheckPackageSpec
    \/ Finish
    \/ ApplyFix

Spec == Init /\ [][Next]_vars

----------------------------------------------------------------------------
(* What the claims speak of                                                *)

\* The requirement of node id (InvalidRequirement for a node that is no string).
ReqOf(id) ==
    IF nodes[id].tag = YamlTag("str") THEN Requirement(nodes[id].value)
    ELSE InvalidRequirement

\* The anchor the document binds to node id (NoAnchor: none).
AnchorBoundTo(id) ==
    IF \E k \in 1..Len(anchors) : anchors[k].node = id
    THEN anchors[CHOOSE k \in 1..Len(anchors) : anchors[k].node = id].name
    ELSE NoAnchor

\* Tracked names: a member of RAPIDS_ALPHA_SPEC_PACKAGES, or <base>-cu and two
\* digits with base a member other than dask-cuda.
TrackedName(name) ==
    \/ name \in RAPIDS_ALPHA_SPEC_PACKAGES
    \/ \E base \in RAPIDS_ALPHA_SPEC_PACKAGES \ {dask_cuda}, d1 \in Digits, d2 \in Digits :
          name = base \o <<"-", "c", "u", d1, d2>>

SuffixedName(name) == TrackedName(name) /\ name \notin RAPIDS_ALPHA_SPEC_PACKAGES

AnchorPrefix(a) == IF a = NoAnchor THEN << >> ELSE << "&" >> \o a \o << " " >>

\* text is prefix + name + the clauses of the set S joined by commas, each
\* clause once, in an order the canonical sort leaves as it is.
IsCanonicalFix(text, a, name, S) ==
    \E cl \in Enumerations(S) :
        /\ text = AnchorPrefix(a) \o name \o Join(cl, Comma)
        /\ sorted(cl) = cl
        /\ (ALPHA_SPECIFIER \in S => cl[Len(cl)] = ALPHA_SPECIFIER)

\* The call came to the policy: a tracked requirement whose anchor, if it has
\* one, was not used yet.
Evaluated(call, req, a) == req.ok /\ TrackedName(req.name) /\ a \notin call.used

Emitting == { i \in 1..Len(calls) : calls[i].emit }

\* Every warning belongs to one call, and the calls emit in their order.
OneWarningPerEmit ==
    /\ Len(warnings) = Cardinality(Emitting)
    /\ \A i \in Emitting : calls[i].widx = Cardinality({ j \in Emitting : j <= i })

\* C1: in development mode, a call on a tracked requirement without the alpha
\* specifier, whose anchor is not used yet, emits exactly one warning 'add alpha
\* spec for RAPIDS package <name>' whose fix replaces the span of the node by
\* (&anchor )name and the canonical serialization of S with the alpha
\* specifier added once and last; with the alpha specifier in S it emits none.
C1_DevelopmentAddsAlpha ==
    mode = "development" =>
        /\ OneWarningPerEmit
        /\ \A i \in 1..Len(calls) :
             \E req \in {ReqOf(calls[i].node)}, a \in {AnchorBoundTo(calls[i].node)} :
                Evaluated(calls[i], req, a) =>
                    IF ALPHA_SPECIFIER \in req.specifier THEN ~calls[i].emit
                    ELSE /\ calls[i].emit
                         /\ \E w \in {warnings[calls[i].widx]} :
                              /\ w.msg = [text |-> "add alpha spec for RAPIDS package ",
                                          name |-> req.name]
                              /\ w.span = << nodes[calls[i].node].start,
                                             nodes[calls[i].node].end >>
                              /\ w.replacement.span = w.span
                              /\ IsCanonicalFix(w.replacement.text, a, req.name,
                                                req.specifier \cup {ALPHA_SPECIFIER})

\* An anchored requirement with a version clause got the alpha specifier.
C1_Witness ==
    /\ mode = "development"
    /\ \E i \in Emitting :
          /\ AnchorBoundTo(calls[i].node) # NoAnchor
          /\ ReqOf(calls[i].node).specifier # {}

\* C2: in release mode, a call on a tracked requirement with the alpha
\* specifier, whose anchor is not used yet, emits exactly one warning 'remove
\* alpha spec for RAPIDS package <name>' whose fix replaces the span of the
\* node by (&anchor )name and the canonical serialization of S without the
\* alpha specifier (the name alone when S held nothing else); without the
\* alpha specifier in S it emits none.
C2_ReleaseRemovesAlpha ==
    mode = "release" =>
        /\ OneWarningPerEmit
        /\ \A i \in 1..Len(calls) :
             \E req \in {ReqOf(calls[i].node)}, a \in {AnchorBoundTo(calls[i].node)} :
                Evaluated(calls[i], req, a) =>
                    IF ALPHA_SPECIFIER \notin req.specifier THEN ~calls[i].emit
                    ELSE /\ calls[i].emit
                         /\ \E w \in {warnings[calls[i].widx]} :
                              /\ w.msg = [text |-> "remove alpha spec for RAPIDS package ",
                                          name |-> req.name]
                              /\ w.span = << nodes[calls[i].node].start,
                                             nodes[calls[i].node].end >>
                              /\ w.replacement.span = w.span
                              /\ IsCanonicalFix(w.replacement.text, a, req.name,
                                                req.specifier \ {ALPHA_SPECIFIER})
                              /\ (req.specifier = {ALPHA_SPECIFIER} =>
                                    w.replacement.text = AnchorPrefix(a) \o req.name)

\* An anchored requirement that held only the alpha specifier lost it, and
\* another requirement kept two clauses.
C2_Witness ==
    /\ mode = "release"
    /\ \E i \in Emitting :
          /\ AnchorBoundTo(calls[i].node) # NoAnchor
          /\ ReqOf(calls[i].node).specifier = {ALPHA_SPECIFIER}
    /\ \E i \in Emitting : Cardinality(ReqOf(calls[i].node).specifier) = 3

\* C3: applying the fix of a warning and running the check again in the same
\* mode on the result yields no warning for that node: the second run
\* completes, and none of its warnings starts where the fixed node starts.
C3_FixIsIdempotent ==
    (round > 1 /\ pc = "done") =>
        /\ fatal = ""
        /\ \A i \in 1..Len(warnings) : warnings[i].span[1] # fixed.span[1]

\* C4: an anchored tracked requirement that does not comply and is reached
\* more than once gets exactly one warning: the first call on it adds its
\* anchor to used_anchors, and a call on a node whose anchor is in
\* used_anchors emits nothing.
C4_AnchoredNodeFlaggedOnce ==
    /\ \A i \in 1..Len(calls) :
         \E req \in {ReqOf(calls[i].node)}, a \in {AnchorBoundTo(calls[i].node)} :
            (a # NoAnchor /\ req.ok /\ TrackedName(req.name)) =>
                /\ a \in calls[i].used => ~calls[i].emit
                /\ a \in (IF i < Len(calls) THEN calls[i + 1].used ELSE used_anchors)
    /\ \A i \in 1..Len(calls), j \in 1..Len(calls) :
         (i < j /\ calls[i].node = calls[j].node
                /\ AnchorBoundTo(calls[i].node) # NoAnchor
                /\ calls[i].emit) =>
             /\ ~calls[j].emit
             /\ Cardinality({ k \in Emitting : calls[k].node = calls[i].node }) = 1

\* An anchored requirement was flagged at its definition and then reached
\* again through its alias.
C4_Witness ==
    \E i \in 1..Len(calls), j \in 1..Len(calls) :
        /\ i < j
        /\ calls[i].node = calls[j].node
        /\ AnchorBoundTo(calls[i].node) # NoAnchor
        /\ calls[i].emit
        /\ ~calls[j].emit

\* Whether a node whose requirement has the specifier set S complies with mode m.
Complies(m, S) ==
    IF m = "development" THEN ALPHA_SPECIFIER \in S ELSE ALPHA_SPECIFIER \notin S

\* C5: only a tracked name gets a warning (a member of the package set, or
\* <base>-cu and two digits with base a member other than dask-cuda), and for
\* a tracked name, suffixed or not, the decision depends on the mode and the
\* specifier set alone; dask-cuda-cu12 and numpy never get one.
C5_OnlyTrackedNames ==
    \A i \in 1..Len(calls) :
        \E req \in {ReqOf(calls[i].node)}, a \in {AnchorBoundTo(calls[i].node)} :
            /\ calls[i].emit => (req.ok /\ TrackedName(req.name))
            /\ (req.ok /\ TrackedName(req.name) /\ a \notin calls[i].used) =>
                   (calls[i].emit <=> ~Complies(mode, req.specifier))
            /\ (req.ok /\ req.name \in {dask_cuda \o Cu12, numpy}) => ~calls[i].emit

\* A suffixed name was flagged, and dask-cuda-cu12 with a specifier set that
\* does not comply was not.
C5_Witness ==
    /\ \E i \in Emitting : SuffixedName(ReqOf(calls[i].node).name)
    /\ \E i \in 1..Len(calls) :
          /\ ReqOf(calls[i].node).name = dask_cuda \o Cu12
          /\ ~Complies(mode, ReqOf(calls[i].node).specifier)
          /\ ~calls[i].emit

\* Whether every document of the stream is well-formed YAML.
ValidYAML(c) == c.docs = 0 \/ compose_document(c).ok

\* C6: check_alpha_spec ends in a fatal error exactly when the input is not
\* valid YAML, and then no warning was emitted; on valid YAML, a stream of no
\* document or of several documents included, it completes.
C6_FatalIffInvalidYAML ==
    pc = "done" =>
        /\ (fatal # "") <=> ~ValidYAML(content)
        /\ (fatal # "") => warnings = << >>

\* The clauses of the document's requirements, and the alpha specifier.
DocumentClauses ==
    UNION { ReqOf(id).specifier : id \in { n \in DOMAIN nodes : n >= FirstLeaf } }
        \cup {ALPHA_SPECIFIER}

Stripped(clause) ==
    [k \in 1..Cardinality({ i \in 1..Len(clause) : clause[i] \notin {"<", ">", "="} }) |->
        clause[CHOOSE i \in 1..Len(clause) :
                  /\ clause[i] \notin {"<", ">", "="}
                  /\ Cardinality({ j \in 1..i : clause[j] \notin {"<", ">", "="} }) = k]]

Incomparable(a, b) == ~SpecPriority_lt(a, b) /\ ~SpecPriority_lt(b, a)

\* The clauses of the fix of the warning of call i.
FixClauses(i) ==
    LET Tail2(text, n) == IF n >= Len(text) THEN << >>
                          ELSE Split(SubSeq(text, n + 1, Len(text)), ",")
    IN  Tail2(warnings[calls[i].widx].replacement.text,
              Len(AnchorPrefix(AnchorBoundTo(calls[i].node)))
                  + Len(ReqOf(calls[i].node).name))

\* C7: SpecPriority.__lt__ is a strict weak ordering of the clauses, with the
\* alpha specifier above every other clause and the other clauses ordered by
\* their text without '<', '>', '='; so the alpha specifier, when a fix holds
\* it, is the last clause of the fix.
C7_StrictWeakOrdering ==
    pc = "walk" =>
        /\ \E D \in {DocumentClauses} :
            /\ \A a \in D : ~SpecPriority_lt(a, a)
            /\ \A a \in D, b \in D, c \in D :
                 (SpecPriority_lt(a, b) /\ SpecPriority_lt(b, c)) => SpecPriority_lt(a, c)
            /\ \A a \in D, b \in D, c \in D :
                 (Incomparable(a, b) /\ Incomparable(b, c)) => Incomparable(a, c)
            /\ \A a \in D \ {ALPHA_SPECIFIER} :
                 SpecPriority_lt(a, ALPHA_SPECIFIER) /\ ~SpecPriority_lt(ALPHA_SPECIFIER, a)
            /\ \A a \in D \ {ALPHA_SPECIFIER}, b \in D \ {ALPHA_SPECIFIER} :
                 SpecPriority_lt(a, b) <=> StrLt(Stripped(a), Stripped(b))
        /\ \A i \in Emitting :
             \E cl \in {FixClauses(i)} :
                \A k \in 1..Len(cl) : cl[k] = ALPHA_SPECIFIER => k = Len(cl)

\* The document holds three clauses that differ in their operators only, and
\* a fix of three clauses ends with the alpha specifier.
C7_Witness ==
    /\ pc = "walk"
    /\ {GE1, LE1, EQ1} \subseteq DocumentClauses
    /\ \E i \in Emitting :
          /\ Len(FixClauses(i)) = 3
          /\ FixClauses(i)[3] = ALPHA_SPECIFIER

----------------------------------------------------------------------------
(* The schema, as the two paths of the walk                                *)

AnyKey == "*"

CommonPath ==
    << [tag |-> "map", key |-> "dependencies"], [tag |-> "map", key |-> AnyKey],
       [tag |-> "map", key |-> "common"], [tag |-> "seq", key |-> AnyKey],
       [tag |-> "map", key |-> "packages"], [tag |-> "seq", key |-> AnyKey] >>

SpecificPath ==
    << [tag |-> "map", key |-> "dependencies"], [tag |-> "map", key |-> AnyKey],
       [tag |-> "map", key |-> "specific"], [tag |-> "seq", key |-> AnyKey],
       [tag |-> "map", key |-> "matrices"], [tag |-> "seq", key |-> AnyKey],
       [tag |-> "map", key |-> "packages"], [tag |-> "seq", key |-> AnyKey] >>

\* The children of node n that a step of a path leads to, as the indexes of
\* the entries of n.
StepIndexes(n, step) ==
    IF n.tag # YamlTag(step.tag) THEN {}
    ELSE IF step.tag = "seq" THEN 1..Len(n.items)
    ELSE { j \in 1..Len(n.pairs) :
             \/ step.key = AnyKey
             \/ n.pairs[j].key.tag = YamlTag("str") /\ n.pairs[j].key.value = step.key }

StepChild(n, step, j) == IF step.tag = "seq" THEN n.items[j] ELSE n.pairs[j].v

RECURSIVE Follow(_, _, _)
\* The occurrences [path, node] reached from those of frontier by the steps
\* of the path from the i-th on; path is the indexes of the entries taken.
Follow(frontier, path, i) ==
    IF i > Len(path) THEN frontier
    ELSE Follow(UNION { { [path |-> Append(o.path, j),
                           node |-> StepChild(nodes[o.node], path[i], j)] :
                            j \in StepIndexes(nodes[o.node], path[i]) } :
                        o \in frontier },
                path, i + 1)

Occurrences ==
    Follow({ [path |-> << >>, node |-> root] }, CommonPath, 1)
        \cup Follow({ [path |-> << >>, node |-> root] }, SpecificPath, 1)

\* p is before q in the document.
PathBefore(p, q) ==
    \E i \in 1..Min(Len(p), Len(q)) :
        /\ \A j \in 1..(i - 1) : p[j] = q[j]
        /\ p[i] < q[i]

\* The nodes of the occurrences, in the order of the document.
InDocumentOrder(occ) ==
    [k \in 1..Cardinality(occ) |->
        (CHOOSE o \in occ :
            Cardinality({ q \in occ : PathBefore(q.path, o.path) }) = k - 1).node]

CallNodes == [i \in 1..Len(calls) |-> calls[i].node]

\* C8: check_root calls check_package_spec on exactly the entries of the
\* 'packages' sequences that one of the two paths of the schema reaches, once
\* for each way of reaching them and in the order of the document, and the
\* warnings come in the order of the calls; a tag or a key that does not match
\* ends that branch with no warning and no error.
C8_WalkFollowsSchema ==
    pc \in {"walk", "done"} /\ root # 0 =>
        /\ \E occ \in {Occurrences} : CallNodes \o todo = InDocumentOrder(occ)
        /\ OneWarningPerEmit
        /\ fatal = ""

\* 'specific' stands before 'common', both paths led to calls, and a warning
\* was emitted for each.
C8_Witness ==
    /\ pc = "done"
    /\ content.swapped
    /\ \E i \in Emitting, j \in Emitting :
          /\ i < j
          /\ nodes[calls[i].node].start < HeaderLen + Len(content.l2)
          /\ nodes[calls[j].node].start > HeaderLen + Len(content.l2)

\* C9: the text of a fix does not depend on the order in which the set of
\* clauses is iterated, also when two clauses differ in '<', '>', '=' only.
C9_FixTextIsDeterministic ==
    \A i \in Emitting :
        \A enum \in FixEnumerations(nodes, mode, calls[i].node) :
            warnings[calls[i].widx].replacement.text =
                AnchorPrefix(AnchorBoundTo(calls[i].node))
                    \o ReqOf(calls[i].node).name \o create_specifier_string(enum)

\* C10: no two warnings of one walk carry the same span.
C10_NoSpanFlaggedTwice ==
    \A i \in 1..Len(warnings), j \in 1..Len(warnings) :
        i # j => warnings[i].span # warnings[j].span

====
